---- MODULE Spec2Model ----
(***************************************************************************)
(* Model of src/index.py: the conversion client                            *)
(* (process_html_file_with_url, process_html_file_chunked), the statement  *)
(* extractors (extract_income_statement, extract_balance_sheet,            *)
(* extract_cash_flow) and the batch orchestrator (main).                   *)
(*                                                                         *)
(* Representation of Python values:                                        *)
(*   - a str is a sequence of one-character strings, so that split and     *)
(*     slicing are computed, except dictionary keys / column names of the  *)
(*     service's JSON, which are never parsed and stay TLA+ strings;       *)
(*   - a dict is a sequence of [key, val] entries with distinct keys, in   *)
(*     insertion order (Python dicts iterate in insertion order);          *)
(*   - an observation is a record whose fields are the keys it carries     *)
(*     ([period |-> .., value |-> ..] or [date |-> .., value |-> ..]);      *)
(*   - a function's return is [none |-> BOOLEAN, data |-> dict];           *)
(*   - a DataFrame is [columns |-> Seq, rows |-> Seq of                    *)
(*     [label, cells, source]], cells mapping each period/date column to   *)
(*     a value, NaN standing for an empty cell.                            *)
(***************************************************************************)
EXTENDS Integers, Sequences, FiniteSets, TLC

\* ---------------------------------------------------------------- bounds
MaxLabels == 2
MaxObs == 2

\* ------------------------------------------------------------- constants
SleepInterval == 2
HttpOk == 200

NaN == 0
NoSource == <<>>

Labels == {"Revenue", "NetIncome", "Cash"}
Periods == {"2021", "2020"}
Values == {1}

\* ------------------------------------------------------- string helpers
RECURSIVE SplitAcc(_, _, _)
SplitAcc(s, sep, cur) ==
    IF s = <<>> THEN <<cur>>
    ELSE IF Head(s) = sep THEN <<cur>> \o SplitAcc(Tail(s), sep, <<>>)
    ELSE SplitAcc(Tail(s), sep, Append(cur, Head(s)))

split(s, sep) == SplitAcc(s, sep, <<>>)

basename(file_path) ==
    LET parts == split(file_path, "/") IN parts[Len(parts)]

FileName(n) ==
    <<"a", "a", "p", "l", "_", "1", "0", "k", "_", n, ".", "h", "t", "m", "l">>

html_files ==
    <<FileName("1"), FileName("2"), FileName("3"), FileName("4"), FileName("5")>>

\* ---------------------------------------------------------- dict helpers
HasKey(d, k) == \E n \in 1..Len(d) : d[n].key = k

Get(d, k) == d[CHOOSE n \in 1..Len(d) : d[n].key = k].val

Keys(d) == {d[n].key : n \in 1..Len(d)}

RECURSIVE Put(_, _, _)
Put(d, k, v) ==
    IF d = <<>> THEN <<[key |-> k, val |-> v]>>
    ELSE IF Head(d).key = k THEN <<[key |-> k, val |-> v]>> \o Tail(d)
    ELSE <<Head(d)>> \o Put(Tail(d), k, v)

\* variant: 'if result is not None' in place of 'if result'
TruthyIsNotNone(r) == ~r.none

Truthy(r) == ~r.none /\ Len(r.data) > 0

PyNone == [none |-> TRUE, data |-> <<>>]

Ret(d) == [none |-> FALSE, data |-> d]

\* ----------------------------------------------------- DataFrame helpers
EmptyDF == [columns |-> <<>>, rows |-> <<>>]

\* variant: the column test of lines 153/173/191 never finds the column
InColumnsNever(c, df) == FALSE

InColumns(c, df) == \E n \in 1..Len(df.columns) : df.columns[n] = c

ColumnSet(df) == {df.columns[n] : n \in 1..Len(df.columns)}

\* df[c] = None
AddColumn(df, c) ==
    [columns |-> Append(df.columns, c),
     rows |-> [n \in 1..Len(df.rows) |->
        [df.rows[n] EXCEPT !.cells =
            [x \in (DOMAIN df.rows[n].cells) \cup {c} |->
                IF x = c THEN NaN ELSE df.rows[n].cells[x]]]]]

\* df.loc[item, c] = v  (setting with enlargement when item is a new row)
SetLoc(df, item, c, v) ==
    IF \E n \in 1..Len(df.rows) : df.rows[n].label = item
    THEN [df EXCEPT !.rows =
            [n \in 1..Len(df.rows) |->
                IF df.rows[n].label = item
                THEN [df.rows[n] EXCEPT !.cells[c] = v]
                ELSE df.rows[n]]]
    ELSE [df EXCEPT !.rows =
            Append(df.rows,
                [label |-> item,
                 cells |-> [x \in ColumnSet(df) |-> IF x = c THEN v ELSE NaN],
                 source |-> NoSource])]

\* variant: the source column is assigned before the rows are filled in, so
\* that the rows added afterwards hold no source
SetSourceBeforeRows(df, source_file) ==
    [df EXCEPT !.columns = Append(df.columns, "source_file")]

\* df['source_file'] = source_file
SetSource(df, source_file) ==
    [columns |-> Append(df.columns, "source_file"),
     rows |-> [n \in 1..Len(df.rows) |->
                [df.rows[n] EXCEPT !.source = source_file]]]

\* ------------------------------------------------------------ extractors
\* value[tkey] / value['value']: a missing key raises KeyError
HasFields(value, tkey) == {tkey, "value"} \subseteq DOMAIN value

TimeOf(value, tkey) == IF tkey = "date" THEN value.date ELSE value.period

\* for value in values: ...   acc = [raised, df]
RECURSIVE ValuesLoop(_, _, _, _)
ValuesLoop(acc, item, values, tkey) ==
    IF acc.raised \/ values = <<>> THEN acc
    ELSE LET value == Head(values) IN
         IF ~HasFields(value, tkey) THEN [acc EXCEPT !.raised = TRUE]
         ELSE LET period == TimeOf(value, tkey)
                  df1 == IF ~InColumns(period, acc.df)
                         THEN AddColumn(acc.df, period) ELSE acc.df
                  df2 == SetLoc(df1, item, period, value.value)
              IN ValuesLoop([acc EXCEPT !.df = df2], item, Tail(values), tkey)

\* for item, values in json_data[K].items(): ...
RECURSIVE ItemsLoop(_, _, _)
ItemsLoop(acc, items, tkey) ==
    IF acc.raised \/ items = <<>> THEN acc
    ELSE ItemsLoop(ValuesLoop(acc, Head(items).key, Head(items).val, tkey),
                   Tail(items), tkey)

\* variant: the extractor without the membership test of lines 143-145, where
\* json_data[key] raises KeyError
ExtractStatementUnchecked(json_data, key, tkey, source_file) ==
    IF ~HasKey(json_data, key)
    THEN [status |-> "raised", df |-> EmptyDF]
    ELSE LET acc == ItemsLoop([raised |-> FALSE, df |-> EmptyDF],
                              Get(json_data, key), tkey)
         IN IF acc.raised
            THEN [status |-> "raised", df |-> EmptyDF]
            ELSE [status |-> "table", df |-> SetSource(acc.df, source_file)]

\* outcome of an extractor: "none" (returned None), "table" or "raised"
ExtractStatement(json_data, key, tkey, source_file) ==
    IF ~HasKey(json_data, key)
    THEN [status |-> "none", df |-> EmptyDF]
    ELSE LET acc == ItemsLoop([raised |-> FALSE, df |-> EmptyDF],
                              Get(json_data, key), tkey)
         IN IF acc.raised
            THEN [status |-> "raised", df |-> EmptyDF]
            ELSE [status |-> "table", df |-> SetSource(acc.df, source_file)]

extract_income_statement(json_data, source_file) ==
    ExtractStatement(json_data, "StatementsOfIncome", "period", source_file)

extract_balance_sheet(json_data, source_file) ==
    ExtractStatement(json_data, "BalanceSheets", "date", source_file)

extract_cash_flow(json_data, source_file) ==
    ExtractStatement(json_data, "StatementsOfCashFlows", "period", source_file)

\* ----------------------------------------------------- conversion client
\* A service environment for one call:
\*   readable   - open(file_path) succeeds
\*   content    - the bytes of the file
\*   transport  - requests.get / requests.post returns a response
\*   status     - response.status_code
\*   parsable   - json.loads(response.text) succeeds
\*   json       - the value json.loads returns ([none, data])
Cik == <<"3", "2", "0", "1", "9", "3">>

DefaultYear == <<"2", "0", "2", "1">>

gzip_compress(content) == <<"gzip">> \o content

b64encode(bytes) == <<"b64">> \o bytes

LogEntry(level, what) == [level |-> level, what |-> what]

\* body of the try block, lines 27-61: exc = an exception left the block
UrlTryBody(file_path, env) ==
    LET file_name == basename(file_path)
        parts == split(file_name, "_")
        year == IF Len(parts) > 2 THEN split(parts[3], ".")[1] ELSE DefaultYear
        sec_url == [cik |-> Cik, year |-> year]
        req == [method |-> "GET", ref |-> sec_url, payload |-> <<>>]
        log1 == <<LogEntry("info", "using_url_method"),
                  LogEntry("info", "requesting_conversion")>>
    IN IF ~env.readable
       THEN [exc |-> TRUE, ret |-> PyNone, logs |-> <<>>, requests |-> <<>>]
       ELSE IF ~env.transport
       THEN [exc |-> TRUE, ret |-> PyNone, logs |-> log1, requests |-> <<req>>]
       ELSE IF env.status = HttpOk
       THEN IF env.parsable
            THEN [exc |-> FALSE, ret |-> env.json,
                  logs |-> Append(log1, LogEntry("info", "success")),
                  requests |-> <<req>>]
            ELSE [exc |-> TRUE, ret |-> PyNone,
                  logs |-> Append(log1, LogEntry("info", "success")),
                  requests |-> <<req>>]
       ELSE [exc |-> FALSE, ret |-> PyNone,
             logs |-> Append(log1, LogEntry("error", "http_status")),
             requests |-> <<req>>]

\* variant: the handler logs and re-raises
CatchAndReraise(body) ==
    IF body.exc
    THEN [raised |-> TRUE, ret |-> PyNone,
          logs |-> Append(body.logs, LogEntry("error", "exception")),
          requests |-> body.requests]
    ELSE [raised |-> FALSE, ret |-> body.ret,
          logs |-> body.logs, requests |-> body.requests]

\* except Exception as e: logger.error(...); return None
CatchAll(body) ==
    IF body.exc
    THEN [raised |-> FALSE, ret |-> PyNone,
          logs |-> Append(body.logs, LogEntry("error", "exception")),
          requests |-> body.requests]
    ELSE [raised |-> FALSE, ret |-> body.ret,
          logs |-> body.logs, requests |-> body.requests]

process_html_file_with_url(file_path, env) ==
    CatchAll(UrlTryBody(file_path, env))

\* body of the try block, lines 80-116
ChunkedTryBody(file_path, env) ==
    LET compressed_content == gzip_compress(env.content)
        encoded_content == b64encode(compressed_content)
        req == [method |-> "POST", ref |-> [cik |-> <<>>, year |-> <<>>],
                payload |-> encoded_content]
        log1 == <<LogEntry("info", "sizes"),
                  LogEntry("info", "sending_compressed")>>
    IN IF ~env.readable
       THEN [exc |-> TRUE, ret |-> PyNone, logs |-> <<>>, requests |-> <<>>]
       ELSE IF ~env.transport
       THEN [exc |-> TRUE, ret |-> PyNone, logs |-> log1, requests |-> <<req>>]
       ELSE IF env.status = HttpOk
       THEN IF env.parsable
            THEN [exc |-> FALSE, ret |-> env.json,
                  logs |-> Append(log1, LogEntry("info", "success")),
                  requests |-> <<req>>]
            ELSE [exc |-> TRUE, ret |-> PyNone,
                  logs |-> Append(log1, LogEntry("info", "success")),
                  requests |-> <<req>>]
       ELSE [exc |-> FALSE, ret |-> PyNone,
             logs |-> Append(log1, LogEntry("error", "http_status")),
             requests |-> <<req>>]

process_html_file_chunked(file_path, env) ==
    CatchAll(ChunkedTryBody(file_path, env))

extract_accession_number_from_filename(filename) ==
    LET parts == split(filename, "_")
    IN IF Len(parts) >= 3
       THEN [none |-> FALSE, data |-> split(parts[3], ".")[1]]
       ELSE PyNone

\* --------------------------------------------------------------- pd.concat
RECURSIVE AppendNew(_, _)
AppendNew(cols, more) ==
    IF more = <<>> THEN cols
    ELSE AppendNew(IF \E n \in 1..Len(cols) : cols[n] = Head(more)
                   THEN cols ELSE Append(cols, Head(more)),
                   Tail(more))

RECURSIVE UnionColumns(_)
UnionColumns(frames) ==
    IF frames = <<>> THEN <<>>
    ELSE AppendNew(Head(frames).columns, UnionColumns(Tail(frames)))

Reindex(row, cols) ==
    [row EXCEPT !.cells =
        [x \in cols |-> IF x \in DOMAIN row.cells THEN row.cells[x] ELSE NaN]]

RECURSIVE ConcatRows(_, _)
ConcatRows(frames, cols) ==
    IF frames = <<>> THEN <<>>
    ELSE [n \in 1..Len(Head(frames).rows) |-> Reindex(Head(frames).rows[n], cols)]
         \o ConcatRows(Tail(frames), cols)

\* variant: pd.concat(frames, join='inner')
concatInner(frames) ==
    LET columns == SelectSeq(UnionColumns(frames),
                        LAMBDA c : \A n \in 1..Len(frames) : InColumns(c, frames[n]))
        cols == {columns[n] : n \in 1..Len(columns)} \ {"source_file"}
    IN [columns |-> columns, rows |-> ConcatRows(frames, cols)]

\* pd.concat(frames): outer join on the columns, rows appended in order
concat(frames) ==
    LET columns == UnionColumns(frames)
        cols == {columns[n] : n \in 1..Len(columns)} \ {"source_file"}
    IN [columns |-> columns, rows |-> ConcatRows(frames, cols)]

\* ------------------------------------------------- the service's answers
Obs(tkey, p, v) ==
    IF tkey = "date" THEN [date |-> p, value |-> v] ELSE [period |-> p, value |-> v]

Entry(k, v) == [key |-> k, val |-> v]

\* all three kinds, periods 2021 and 2020
ResA ==
    <<Entry("StatementsOfIncome",
        <<Entry("Revenue", <<Obs("period", "2021", 1), Obs("period", "2020", 2)>>),
          Entry("NetIncome", <<Obs("period", "2021", 2)>>)>>),
      Entry("BalanceSheets",
        <<Entry("Cash", <<Obs("date", "2021", 1), Obs("date", "2020", 1)>>)>>),
      Entry("StatementsOfCashFlows",
        <<Entry("NetIncome", <<Obs("period", "2021", 1), Obs("period", "2020", 2)>>)>>)>>

\* an income statement only, period 2021
ResB ==
    <<Entry("StatementsOfIncome",
        <<Entry("Revenue", <<Obs("period", "2021", 2)>>)>>)>>

\* no income statement; a line item without observations; a date observed
\* twice for one line item; an empty section
ResC ==
    <<Entry("BalanceSheets",
        <<Entry("Cash", <<>>),
          Entry("Debt", <<Obs("date", "2020", 2), Obs("date", "2020", 1)>>)>>),
      Entry("StatementsOfCashFlows", <<>>)>>

\* a balance sheet whose observations carry 'period' instead of 'date'
ResBad ==
    <<Entry("StatementsOfIncome",
        <<Entry("Revenue", <<Obs("period", "2021", 1)>>)>>),
      Entry("BalanceSheets",
        <<Entry("Cash", <<Obs("period", "2021", 1)>>)>>)>>

JsonValues == {PyNone, Ret(<<>>), Ret(ResA), Ret(ResB), Ret(ResC), Ret(ResBad)}

Statuses == {HttpOk, 404}

Contents == {<<"<", "h", "t", "m", "l", ">">>}

Envs ==
    [readable : BOOLEAN, content : Contents, transport : BOOLEAN,
     status : Statuses, parsable : BOOLEAN, json : JsonValues]

\* ------------------------------------------------------------------ state
VARIABLES
    pc,                     \* position in main
    i,                      \* index of file_path in html_files
    readable,               \* whether open(file_path) succeeded in this call
    inflight,               \* requests sent and not yet answered
    result,                 \* main's local 'result'
    results,                \* main's dict 'results'
    all_income_statements,
    all_balance_sheets,
    all_cash_flows,
    j,                      \* index of the (file_name, data) pair of the second loop
    files,                  \* the output sink: file name -> table written
    report,                 \* the summary counts once logged
    trace,                  \* calls, log lines and sleeps of main, in order
    returned,               \* what process_html_file_with_url returned, per document
    extracted,              \* outcome of every extractor call made by main
    clock,                  \* time slept so far
    fin,                    \* input of the function under test
    fout                    \* its outputs

vars ==
    <<pc, i, readable, inflight, result, results, all_income_statements,
      all_balance_sheets, all_cash_flows, j, files, report, trace, returned,
      extracted, clock, fin, fout>>

mainVars ==
    <<pc, i, readable, inflight, result, results, all_income_statements,
      all_balance_sheets, all_cash_flows, j, files, report, trace, returned,
      extracted, clock>>

NoReport == [logged |-> FALSE, processed |-> 0, income |-> 0, balance |-> 0, cash |-> 0]

Event(ev, file) == [ev |-> ev, file |-> file]

MainRest ==
    /\ i = 1
    /\ readable = FALSE
    /\ inflight = 0
    /\ result = PyNone
    /\ results = <<>>
    /\ all_income_statements = <<>>
    /\ all_balance_sheets = <<>>
    /\ all_cash_flows = <<>>
    /\ j = 1
    /\ files = <<>>
    /\ report = NoReport
    /\ trace = <<>>
    /\ returned = <<>>
    /\ extracted = <<>>
    /\ clock = 0

MainInit ==
    /\ pc = "call"
    /\ MainRest

Init ==
    /\ MainInit
    /\ fin = <<>>
    /\ fout = <<>>

\* ------------------------------------------------------------------- main
file_path == html_files[i]

\* line 218 up to the point where the call blocks on requests.get
CallByReference ==
    /\ pc = "call"
    /\ \E env \in Envs :
        LET r == process_html_file_with_url(file_path, env) IN
        /\ readable' = env.readable
        /\ trace' = trace \o <<Event("call_url", file_path)>>
                    \o [n \in 1..Len(r.requests) |->
                            Event(r.requests[n].method, file_path)]
        /\ inflight' = inflight + Len(r.requests)
        /\ IF r.requests = <<>>
           THEN /\ result' = r.ret
                /\ returned' = Append(returned, r.ret)
                /\ pc' = "handle"
           ELSE /\ pc' = "await"
                /\ UNCHANGED <<result, returned>>
    /\ UNCHANGED <<i, results, all_income_statements, all_balance_sheets,
                   all_cash_flows, j, files, report, extracted, clock, fin, fout>>

\* the service answers (or the transport fails) and the call returns
Receive ==
    /\ pc = "await"
    /\ \E env \in Envs :
        /\ env.readable = readable
        /\ LET r == process_html_file_with_url(file_path, env) IN
            /\ result' = r.ret
            /\ returned' = Append(returned, r.ret)
    /\ inflight' = inflight - 1
    /\ pc' = "handle"
    /\ UNCHANGED <<i, readable, results, all_income_statements, all_balance_sheets,
                   all_cash_flows, j, files, report, trace, extracted, clock,
                   fin, fout>>

\* lines 221-241
Handle ==
    /\ pc = "handle"
    /\ LET accession_number == extract_accession_number_from_filename(file_path)
           fallback ==
               IF ~Truthy(result)
               THEN <<Event("log_url_failed", file_path)>>
                    \o (IF Truthy(accession_number)
                        THEN <<Event("log_would_process", file_path)>>
                        ELSE <<>>)
               ELSE <<>>
       IN trace' = trace \o fallback
    /\ results' = IF Truthy(result)
                  THEN Put(results, basename(file_path), result.data)
                  ELSE results
    /\ pc' = "sleep"
    /\ UNCHANGED <<i, readable, inflight, result, all_income_statements,
                   all_balance_sheets, all_cash_flows, j, files, report,
                   returned, extracted, clock, fin, fout>>

AfterItem(n) == IF n > Len(results) THEN "combine_income" ELSE "extract_income"

\* variant: time.sleep(2) inside the 'if result:' block
SleepIfResult ==
    /\ pc = "sleep"
    /\ clock' = IF Truthy(result) THEN clock + SleepInterval ELSE clock
    /\ trace' = IF Truthy(result)
                THEN Append(trace, Event("sleep", file_path)) ELSE trace
    /\ i' = i + 1
    /\ pc' = IF i = Len(html_files) THEN AfterItem(1) ELSE "call"
    /\ UNCHANGED <<readable, inflight, result, results, all_income_statements,
                   all_balance_sheets, all_cash_flows, j, files, report,
                   returned, extracted, fin, fout>>

\* line 244, and the loop header of line 214 or 251
Sleep ==
    /\ pc = "sleep"
    /\ clock' = clock + SleepInterval
    /\ trace' = Append(trace, Event("sleep", file_path))
    /\ i' = i + 1
    /\ pc' = IF i = Len(html_files) THEN AfterItem(1) ELSE "call"
    /\ UNCHANGED <<readable, inflight, result, results, all_income_statements,
                   all_balance_sheets, all_cash_flows, j, files, report,
                   returned, extracted, fin, fout>>

Outcome(kind, file_name, o) == [file |-> file_name, kind |-> kind, status |-> o.status]

\* lines 253-255
ExtractIncome ==
    /\ pc = "extract_income"
    /\ LET file_name == results[j].key
           income_statement == extract_income_statement(results[j].val, file_name)
       IN /\ extracted' = Append(extracted, Outcome("income", file_name, income_statement))
          /\ all_income_statements' =
                IF income_statement.status = "table"
                THEN Append(all_income_statements, income_statement.df)
                ELSE all_income_statements
          /\ pc' = IF income_statement.status = "raised"
                   THEN "crashed" ELSE "extract_balance"
    /\ UNCHANGED <<i, readable, inflight, result, results, all_balance_sheets,
                   all_cash_flows, j, files, report, trace, returned, clock,
                   fin, fout>>

\* lines 258-260
ExtractBalance ==
    /\ pc = "extract_balance"
    /\ LET file_name == results[j].key
           balance_sheet == extract_balance_sheet(results[j].val, file_name)
       IN /\ extracted' = Append(extracted, Outcome("balance", file_name, balance_sheet))
          /\ all_balance_sheets' =
                IF balance_sheet.status = "table"
                THEN Append(all_balance_sheets, balance_sheet.df)
                ELSE all_balance_sheets
          /\ pc' = IF balance_sheet.status = "raised"
                   THEN "crashed" ELSE "extract_cash"
    /\ UNCHANGED <<i, readable, inflight, result, results, all_income_statements,
                   all_cash_flows, j, files, report, trace, returned, clock,
                   fin, fout>>

\* lines 263-265, and the loop header of line 251
ExtractCashFlow ==
    /\ pc = "extract_cash"
    /\ LET file_name == results[j].key
           cash_flow == extract_cash_flow(results[j].val, file_name)
       IN /\ extracted' = Append(extracted, Outcome("cash", file_name, cash_flow))
          /\ all_cash_flows' =
                IF cash_flow.status = "table"
                THEN Append(all_cash_flows, cash_flow.df)
                ELSE all_cash_flows
          /\ pc' = IF cash_flow.status = "raised"
                   THEN "crashed" ELSE AfterItem(j + 1)
    /\ j' = j + 1
    /\ UNCHANGED <<i, readable, inflight, result, results, all_income_statements,
                   all_balance_sheets, files, report, trace, returned, clock,
                   fin, fout>>

\* DataFrame.to_csv(name)
to_csv(sink, name, df) == Put(sink, name, df)

\* lines 268-271
CombineIncome ==
    /\ pc = "combine_income"
    /\ files' = IF all_income_statements # <<>>
                THEN to_csv(files, "combined_income_statement.csv",
                            concat(all_income_statements))
                ELSE files
    /\ pc' = "combine_balance"
    /\ UNCHANGED <<i, readable, inflight, result, results, all_income_statements,
                   all_balance_sheets, all_cash_flows, j, report, trace,
                   returned, extracted, clock, fin, fout>>

\* variant: the balance sheet is written without the test of line 273
CombineBalanceAlways ==
    /\ pc = "combine_balance"
    /\ files' = to_csv(files, "combined_balance_sheet.csv",
                       concat(all_balance_sheets))
    /\ pc' = "combine_cash"
    /\ UNCHANGED <<i, readable, inflight, result, results, all_income_statements,
                   all_balance_sheets, all_cash_flows, j, report, trace,
                   returned, extracted, clock, fin, fout>>

\* lines 273-276
CombineBalance ==
    /\ pc = "combine_balance"
    /\ files' = IF all_balance_sheets # <<>>
                THEN to_csv(files, "combined_balance_sheet.csv",
                            concat(all_balance_sheets))
                ELSE files
    /\ pc' = "combine_cash"
    /\ UNCHANGED <<i, readable, inflight, result, results, all_income_statements,
                   all_balance_sheets, all_cash_flows, j, report, trace,
                   returned, extracted, clock, fin, fout>>

\* lines 278-281
CombineCashFlow ==
    /\ pc = "combine_cash"
    /\ files' = IF all_cash_flows # <<>>
                THEN to_csv(files, "combined_cash_flow.csv",
                            concat(all_cash_flows))
                ELSE files
    /\ pc' = "report"
    /\ UNCHANGED <<i, readable, inflight, result, results, all_income_statements,
                   all_balance_sheets, all_cash_flows, j, report, trace,
                   returned, extracted, clock, fin, fout>>

\* lines 284-287
Report ==
    /\ pc = "report"
    /\ report' = [logged |-> TRUE,
                  processed |-> Len(results),
                  income |-> Len(all_income_statements),
                  balance |-> Len(all_balance_sheets),
                  cash |-> Len(all_cash_flows)]
    /\ pc' = "done"
    /\ UNCHANGED <<i, readable, inflight, result, results, all_income_statements,
                   all_balance_sheets, all_cash_flows, j, files, trace,
                   returned, extracted, clock, fin, fout>>

Next ==
    \/ CallByReference
    \/ Receive
    \/ Handle
    \/ Sleep
    \/ ExtractIncome
    \/ ExtractBalance
    \/ ExtractCashFlow
    \/ CombineIncome
    \/ CombineBalance
    \/ CombineCashFlow
    \/ Report

Spec == Init /\ [][Next]_vars

\* ------------------------------------------- the extractors, on any input
KindKeys == {"StatementsOfIncome", "BalanceSheets", "StatementsOfCashFlows"}

ObsSeqs(tkey) ==
    UNION {[1..n -> {Obs(tkey, p, v) : p \in Periods, v \in Values}] : n \in 0..MaxObs}

Sections(tkey) ==
    UNION {{s \in [1..n -> [key : Labels, val : ObsSeqs(tkey)]] :
                \A a, b \in 1..n : s[a].key = s[b].key => a = b} : n \in 0..MaxLabels}

ExtractInputs ==
    {[json_data |-> <<Entry(k, s)>>, source_file |-> basename(html_files[1])] :
        k \in KindKeys, s \in Sections("period") \cup Sections("date")}

Idle == pc = "fn" /\ fout = <<>>

Applied(fn, out) == <<[fn |-> fn, out |-> out]>>

InitExtract ==
    /\ pc = "fn"
    /\ MainRest
    /\ fin \in ExtractInputs
    /\ fout = <<>>

ApplyExtractIncome ==
    /\ Idle
    /\ fout' = Applied("StatementsOfIncome",
                       extract_income_statement(fin.json_data, fin.source_file))
    /\ UNCHANGED <<mainVars, fin>>

ApplyExtractBalance ==
    /\ Idle
    /\ fout' = Applied("BalanceSheets",
                       extract_balance_sheet(fin.json_data, fin.source_file))
    /\ UNCHANGED <<mainVars, fin>>

ApplyExtractCashFlow ==
    /\ Idle
    /\ fout' = Applied("StatementsOfCashFlows",
                       extract_cash_flow(fin.json_data, fin.source_file))
    /\ UNCHANGED <<mainVars, fin>>

NextExtract ==
    \/ ApplyExtractIncome
    \/ ApplyExtractBalance
    \/ ApplyExtractCashFlow

SpecExtract == InitExtract /\ [][NextExtract]_vars

\* ------------------------------------- the conversion client, on any answer
ClientInputs == [file_path : {html_files[n] : n \in 1..Len(html_files)}, env : Envs]

InitClient ==
    /\ pc = "fn"
    /\ MainRest
    /\ fin \in ClientInputs
    /\ fout = <<>>

ApplyByReference ==
    /\ Idle
    /\ fout' = Applied("process_html_file_with_url",
                       process_html_file_with_url(fin.file_path, fin.env))
    /\ UNCHANGED <<mainVars, fin>>

ApplyByContent ==
    /\ Idle
    /\ fout' = Applied("process_html_file_chunked",
                       process_html_file_chunked(fin.file_path, fin.env))
    /\ UNCHANGED <<mainVars, fin>>

NextClient ==
    \/ ApplyByReference
    \/ ApplyByContent

SpecClient == InitClient /\ [][NextClient]_vars

\* ------------------------------------------------ vocabulary of the claims
StatementKinds == {"income", "balance", "cash"}

KeyOf(kind) ==
    IF kind = "income" THEN "StatementsOfIncome"
    ELSE IF kind = "balance" THEN "BalanceSheets" ELSE "StatementsOfCashFlows"

TimeKeyOf(key) == IF key = "BalanceSheets" THEN "date" ELSE "period"

OutputOf(kind) ==
    IF kind = "income" THEN "combined_income_statement.csv"
    ELSE IF kind = "balance" THEN "combined_balance_sheet.csv"
    ELSE "combined_cash_flow.csv"

Collected(kind) ==
    IF kind = "income" THEN all_income_statements
    ELSE IF kind = "balance" THEN all_balance_sheets ELSE all_cash_flows

CombineDone(kind) ==
    \/ pc \in {"report", "done"}
    \/ kind = "income" /\ pc \in {"combine_balance", "combine_cash"}
    \/ kind = "balance" /\ pc = "combine_cash"

\* document n of html_files has been through lines 218-241
Handled(n) == n < i \/ (n = i /\ pc = "sleep")

WellFormed(section, tkey) ==
    \A n \in 1..Len(section) : \A m \in 1..Len(section[n].val) :
        DOMAIN section[n].val[m] = {tkey, "value"}

LabelsWithObs(section) ==
    {section[n].key : n \in {m \in 1..Len(section) : section[m].val # <<>>}}

RECURSIVE FlatTimes(_, _)
FlatTimes(section, tkey) ==
    IF section = <<>> THEN <<>>
    ELSE [n \in 1..Len(Head(section).val) |-> TimeOf(Head(section).val[n], tkey)]
         \o FlatTimes(Tail(section), tkey)

Min(S) == CHOOSE x \in S : \A y \in S : x <= y

Max(S) == CHOOSE x \in S : \A y \in S : x >= y

FirstAt(seq, x) == Min({n \in 1..Len(seq) : seq[n] = x})

\* cols lists every element of seq once, in the order of first appearance
FirstSeenOrder(cols, seq) ==
    /\ {cols[n] : n \in 1..Len(cols)} = {seq[n] : n \in 1..Len(seq)}
    /\ \A a, b \in 1..Len(cols) : a < b => FirstAt(seq, cols[a]) < FirstAt(seq, cols[b])

PeriodColumns(df) == SelectSeq(df.columns, LAMBDA c : c # "source_file")

RowLabels(df) == {df.rows[n].label : n \in 1..Len(df.rows)}

\* the value the section holds for (label, p): the last such observation
LastValue(section, label, p, tkey) ==
    LET obs == Get(section, label)
        at == {n \in 1..Len(obs) : TimeOf(obs[n], tkey) = p}
    IN IF at = {} THEN NaN ELSE obs[Max(at)].value

\* ---------------------------------------------------------------------- C1
ExtractApplied == fout # <<>> /\ HasKey(fin.json_data, fout[1].fn)

AppliedSection == Get(fin.json_data, fout[1].fn)

AppliedWellFormed ==
    /\ ExtractApplied
    /\ WellFormed(AppliedSection, TimeKeyOf(fout[1].fn))

ColumnsFirstSeen ==
    /\ fout[1].out.status = "table"
    /\ fout[1].out.df.columns[Len(fout[1].out.df.columns)] = "source_file"
    /\ FirstSeenOrder(PeriodColumns(fout[1].out.df),
                      FlatTimes(AppliedSection, TimeKeyOf(fout[1].fn)))

\* C1 as stated: extract for a kind the result contains returns a table whose
\* rows are exactly the line-item labels of the section and whose period/date
\* columns are the distinct periods/dates of the observations, first seen first.
C1_RowsAreAllLabels ==
    AppliedWellFormed =>
        /\ ColumnsFirstSeen
        /\ RowLabels(fout[1].out.df) = Keys(AppliedSection)

\* C1 amended: the rows are exactly the line-item labels that have at least
\* one observation, one row each; the period/date columns are the distinct
\* periods/dates of the observations in first-seen order, followed by the
\* source column.
C1_RowsAreLabelsWithObservations ==
    AppliedWellFormed =>
        /\ ColumnsFirstSeen
        /\ RowLabels(fout[1].out.df) = LabelsWithObs(AppliedSection)
        /\ Len(fout[1].out.df.rows) = Cardinality(LabelsWithObs(AppliedSection))

C1_Witness ==
    /\ AppliedWellFormed
    /\ fout[1].out.status = "table"
    /\ Len(AppliedSection) = 2
    /\ AppliedSection[1].val = <<>>
    /\ Len(AppliedSection[2].val) = 2
    /\ Len(PeriodColumns(fout[1].out.df)) = 2
    /\ Len(fout[1].out.df.rows) = 1

\* ---------------------------------------------------------------------- C2
PostedFor(file) ==
    \E n \in 1..Len(trace) : trace[n].ev = "POST" /\ trace[n].file = file

\* C2: once a document whose convertByReference call returned null has been
\* handled, its content has been submitted to the service (convertByContent).
C2_FallbackSubmitsContent ==
    \A n \in 1..Len(returned) :
        (Handled(n) /\ returned[n].none) => PostedFor(html_files[n])

\* ---------------------------------------------------------------------- C3
\* C3: no error raised while extracting a document ends the run before the
\* summary counts are reported.
C3_NeverAborts == pc # "crashed"

\* ---------------------------------------------------------------------- C4
ClientApplied ==
    /\ fout # <<>>
    /\ fout[1].fn \in {"process_html_file_with_url", "process_html_file_chunked"}

ServiceFailed(env) ==
    \/ ~env.readable
    \/ ~env.transport
    \/ env.status # 200
    \/ ~env.parsable

LoggedError(logs) == \E n \in 1..Len(logs) : logs[n].level = "error"

\* C4: each strategy returns a result only on status 200 with a parsable
\* body; on a non-200 status, a transport error, an unparsable body or an
\* unreadable file it returns null, raises nothing and logs an error.
C4_FailureIsNullAndLogged ==
    ClientApplied =>
        /\ ~fout[1].out.raised
        /\ ~fout[1].out.ret.none =>
                /\ ~ServiceFailed(fin.env)
                /\ fout[1].out.ret = fin.env.json
        /\ ServiceFailed(fin.env) =>
                /\ fout[1].out.ret.none
                /\ LoggedError(fout[1].out.logs)

C4_Witness ==
    /\ ClientApplied
    /\ fout[1].fn = "process_html_file_chunked"
    /\ fin.env.readable /\ fin.env.transport /\ fin.env.parsable
    /\ fin.env.status = 404
    /\ ~fin.env.json.none
    /\ fout[1].out.ret.none
    /\ LoggedError(fout[1].out.logs)

\* ---------------------------------------------------------------------- C5
TablesYielded(kind) ==
    Cardinality({x \in 1..Len(extracted) :
                    extracted[x].kind = kind /\ extracted[x].status = "table"})

NextCall(e) ==
    IF e.kind = "income" THEN "balance" ELSE IF e.kind = "balance" THEN "cash" ELSE "income"

RowsFrom(kind, file) ==
    IF HasKey(files, OutputOf(kind))
    THEN {n \in 1..Len(Get(files, OutputOf(kind)).rows) :
            Get(files, OutputOf(kind)).rows[n].source = file}
    ELSE {}

\* C5: an extractor called by main on a result that lacks its kind returns
\* None without raising, and the run does not end at that call: main goes on
\* to the next extractor, every kind the same document does hold (with
\* well-formed observations) yields a table once its extractor has run, the
\* tables yielded are exactly the tables collected, and the combined output
\* of the missing kind holds no row of the document.
C5_MissingKindIsNotAFailure ==
    /\ \A kind \in StatementKinds : Len(Collected(kind)) = TablesYielded(kind)
    /\ \A n \in 1..Len(extracted) :
        LET e == extracted[n]
            data == Get(results, e.file)
        IN ~HasKey(data, KeyOf(e.kind)) =>
            /\ e.status = "none"
            /\ (pc = "crashed" => n < Len(extracted))
            /\ n < Len(extracted) =>
                    /\ extracted[n + 1].kind = NextCall(e)
                    /\ (e.kind # "cash" => extracted[n + 1].file = e.file)
            /\ \A m \in 1..Len(extracted) :
                (/\ extracted[m].file = e.file
                 /\ HasKey(data, KeyOf(extracted[m].kind))
                 /\ WellFormed(Get(data, KeyOf(extracted[m].kind)),
                               TimeKeyOf(KeyOf(extracted[m].kind))))
                    => extracted[m].status = "table"
            /\ RowsFrom(e.kind, e.file) = {}

C5_Witness ==
    /\ pc = "done"
    /\ Len(returned) >= 2
    /\ returned[1] = Ret(ResA)
    /\ returned[2] = Ret(ResB)
    /\ \E n \in 1..Len(extracted) :
        /\ extracted[n].file = basename(html_files[2])
        /\ extracted[n].kind = "balance"
        /\ extracted[n].status = "none"
    /\ RowsFrom("income", basename(html_files[2])) # {}
    /\ RowsFrom("balance", basename(html_files[2])) = {}

\* ---------------------------------------------------------------------- C6
\* C6: once the Combine step of a kind is past, that kind's output file
\* exists if and only if at least one table of the kind was collected, and
\* before that step it does not exist; each kind is decided on its own list.
C6_FileIffTableCollected ==
    \A kind \in StatementKinds :
        /\ CombineDone(kind) =>
                (HasKey(files, OutputOf(kind)) <=> Len(Collected(kind)) >= 1)
        /\ ~CombineDone(kind) => ~HasKey(files, OutputOf(kind))

C6_Witness ==
    /\ pc = "done"
    /\ HasKey(files, "combined_income_statement.csv")
    /\ ~HasKey(files, "combined_balance_sheet.csv")
    /\ ~HasKey(files, "combined_cash_flow.csv")
    /\ all_income_statements # <<>>
    /\ all_balance_sheets = <<>>

\* ---------------------------------------------------------------------- C7
RECURSIVE SumRows(_)
SumRows(frames) ==
    IF frames = <<>> THEN 0 ELSE Len(Head(frames).rows) + SumRows(Tail(frames))

SectionTags(file, section) ==
    LET withObs == SelectSeq(section, LAMBDA it : it.val # <<>>)
    IN [n \in 1..Len(withObs) |-> <<file, withObs[n].key>>]

\* (document, label) of every row the documents' results hold for a kind,
\* in the order of results
RECURSIVE ExpectedTags(_, _)
ExpectedTags(res, key) ==
    IF res = <<>> THEN <<>>
    ELSE (IF HasKey(Head(res).val, key)
          THEN SectionTags(Head(res).key, Get(Head(res).val, key))
          ELSE <<>>)
         \o ExpectedTags(Tail(res), key)

RowTags(df) == [n \in 1..Len(df.rows) |-> <<df.rows[n].source, df.rows[n].label>>]

\* C7: a combined table has as many rows as its per-document tables have
\* together, nothing merged or dropped, and every row carries in the source
\* column the identifier of the document whose result holds that line item.
C7_RowsSumAndAttributed ==
    \A kind \in StatementKinds :
        HasKey(files, OutputOf(kind)) =>
            LET df == Get(files, OutputOf(kind))
            IN /\ Len(df.rows) = SumRows(Collected(kind))
               /\ RowTags(df) = ExpectedTags(results, KeyOf(kind))

C7_Witness ==
    /\ pc = "done"
    /\ HasKey(files, "combined_income_statement.csv")
    /\ LET df == Get(files, "combined_income_statement.csv")
       IN \E a, b \in 1..Len(df.rows) :
            /\ a # b
            /\ df.rows[a].label = df.rows[b].label
            /\ df.rows[a].source # df.rows[b].source
    /\ Len(all_income_statements) >= 3

\* ---------------------------------------------------------------------- C8
Converted(n) == ~returned[n].none /\ returned[n].data # <<>>

\* documents whose conversion succeeded and whose result contains the kind
Contributors(kind) ==
    {n \in 1..Len(returned) : Converted(n) /\ HasKey(returned[n].data, KeyOf(kind))}

DocOf(file) == CHOOSE n \in 1..Len(html_files) : basename(html_files[n]) = file

TimesOf(section, tkey) ==
    LET flat == FlatTimes(section, tkey) IN {flat[n] : n \in 1..Len(flat)}

\* C8: the combined table of a kind holds every row of the documents whose
\* conversion succeeded and whose result contains the kind, and rows of no
\* other document; its period/date columns are the union of those documents'
\* periods/dates, and a cell holds the document's value for (label, period)
\* or is empty when the document has no such observation.
C8_CombinedRowsColumnsCells ==
    \A kind \in StatementKinds :
        HasKey(files, OutputOf(kind)) =>
            LET df == Get(files, OutputOf(kind))
                key == KeyOf(kind)
                tkey == TimeKeyOf(key)
                cols == {c \in ColumnSet(df) : c # "source_file"}
            IN /\ \A r \in 1..Len(df.rows) :
                    /\ DocOf(df.rows[r].source) \in Contributors(kind)
                    /\ DOMAIN df.rows[r].cells = cols
                    /\ \A c \in cols :
                        df.rows[r].cells[c] =
                            LastValue(Get(returned[DocOf(df.rows[r].source)].data, key),
                                      df.rows[r].label, c, tkey)
               /\ \A n \in Contributors(kind) :
                    \A label \in LabelsWithObs(Get(returned[n].data, key)) :
                        \E r \in 1..Len(df.rows) :
                            /\ df.rows[r].source = basename(html_files[n])
                            /\ df.rows[r].label = label
               /\ cols = UNION {TimesOf(Get(returned[n].data, key), tkey) :
                                    n \in Contributors(kind)}

C8_Witness ==
    /\ pc = "done"
    /\ returned[1] = Ret(ResA)
    /\ returned[2] = Ret(ResB)
    /\ \A n \in 3..5 : ~Converted(n)
    /\ LET income == Get(files, "combined_income_statement.csv")
           balance == Get(files, "combined_balance_sheet.csv")
           cash == Get(files, "combined_cash_flow.csv")
       IN /\ Len(income.rows) = 3
          /\ income.rows[3].source = basename(html_files[2])
          /\ income.rows[3].cells["2021"] = 2
          /\ income.rows[3].cells["2020"] = NaN
          /\ \A r \in 1..Len(balance.rows) :
                balance.rows[r].source = basename(html_files[1])
          /\ \A r \in 1..Len(cash.rows) :
                cash.rows[r].source = basename(html_files[1])
          /\ Len(balance.rows) = 1 /\ Len(cash.rows) = 1

\* ---------------------------------------------------------------------- C9
Paced == SelectSeq(trace, LAMBDA e : e.ev \in {"call_url", "sleep"})

Count(ev, file) ==
    Cardinality({n \in 1..Len(trace) : trace[n].ev = ev /\ trace[n].file = file})

\* C9: the calls of convertByReference and the sleeps alternate, one call and
\* then one sleep of 2 per document, in the order of html_files; at most one
\* request per document is sent and none by another strategy; no request is
\* outstanding when the next call starts, and never more than one.
C9_OneCallOneSleepInOrder ==
    /\ Len(Paced) <= 2 * Len(html_files)
    /\ \A k \in 1..Len(Paced) :
        /\ Paced[k].ev = (IF k % 2 = 1 THEN "call_url" ELSE "sleep")
        /\ Paced[k].file = html_files[(k + 1) \div 2]
    /\ Len(Paced) = IF pc \in {"await", "handle", "sleep"}
                    THEN 2 * i - 1 ELSE 2 * (i - 1)
    /\ clock = SleepInterval * (Len(Paced) \div 2)
    /\ SleepInterval = 2
    /\ \A n \in 1..Len(html_files) :
        /\ Count("GET", html_files[n]) <= Count("call_url", html_files[n])
        /\ Count("POST", html_files[n]) = 0
    /\ inflight \in {0, 1}
    /\ inflight = 1 <=> pc = "await"
    /\ pc \notin {"call", "await", "handle", "sleep"} => i = Len(html_files) + 1

C9_Witness ==
    /\ pc = "extract_income"
    /\ clock = 10
    /\ Len(Paced) = 10
    /\ returned[1].none
    /\ ~returned[2].none
    /\ \A n \in 1..5 : Count("call_url", html_files[n]) = 1
    /\ \A n \in 1..5 : Count("sleep", html_files[n]) = 1

\* --------------------------------------------------------------------- C10
\* C10: a handled document is recorded in results if and only if its call
\* returned a non-empty value; otherwise (None or an empty JSON value) the
\* fallback branch was taken; results never holds more than the documents,
\* no list of tables holds more than results, and the counts reported are
\* those sizes.
C10_RecordedIffNonEmpty ==
    /\ \A n \in 1..Len(returned) :
        Handled(n) =>
            /\ HasKey(results, basename(html_files[n])) <=> Converted(n)
            /\ Converted(n) => Get(results, basename(html_files[n])) = returned[n].data
            /\ Count("log_url_failed", html_files[n]) = (IF Converted(n) THEN 0 ELSE 1)
    /\ \A n \in 1..Len(html_files) :
        ~Handled(n) => ~HasKey(results, basename(html_files[n]))
    /\ Len(results) <= Len(html_files)
    /\ \A kind \in StatementKinds : Len(Collected(kind)) <= Len(results)
    /\ report.logged =>
        /\ report.processed = Cardinality({n \in 1..Len(returned) : Converted(n)})
        /\ report.processed <= Len(html_files)
        /\ report.income = Len(all_income_statements)
        /\ report.balance = Len(all_balance_sheets)
        /\ report.cash = Len(all_cash_flows)
        /\ report.income <= report.processed
        /\ report.balance <= report.processed
        /\ report.cash <= report.processed

C10_Witness ==
    /\ pc = "done"
    /\ report.logged
    /\ returned[1] = Ret(<<>>)
    /\ returned[2] = Ret(ResB)
    /\ returned[3] = PyNone
    /\ Count("log_url_failed", html_files[1]) = 1
    /\ ~HasKey(results, basename(html_files[1]))
    /\ report.processed >= 1

====
